---- MODULE Spec2Model ----
(***************************************************************************)
(* slack_ldap_sync.py as a state machine.                                  *)
(*                                                                         *)
(* The program is one sequential loop (__main__) that runs                 *)
(* sync_slack_ldap() once per interval.  Every blocking call to the Slack  *)
(* API or to the LDAP directory is one action with two outcomes: the call  *)
(* answers, or it raises.  The Slack workspace (slack) and the directory's *)
(* paged answer (ldap) are the environment; they are drawn in Init.        *)
(*                                                                         *)
(* Strings whose content the program inspects (emails) are sequences of    *)
(* one-character strings, so that lower() and the substring test are       *)
(* computed.  Opaque strings (paging cookies, ids) are atoms.              *)
(***************************************************************************)
EXTENDS Integers, Sequences, FiniteSets, TLC

VARIABLES
  use_scim_api,               \* line 24
  max_delete_failsafe,        \* line 17, a fraction <<numerator, denominator>>
  slack,                      \* environment: the workspace's accounts
  members_have_scim_keys,     \* environment: users.list members also carry 'emails' and 'active'
  ldap,                       \* environment: the pages the directory answers a search with
  error_counter,              \* line 197
  pc,                         \* where the process stands
  error,                      \* the exception caught at line 202 ("none" while none is raised)
  guest_users,                \* line 151
  all_slack_owners,           \* line 152 (and owners, line 208)
  all_slack_users,            \* lines 154/156
  all_ad_users,               \* line 157: <<>> while unassigned, <<set>> once get_all_active_ad_users returned
  ad_acc,                     \* line 68: all_ad_users inside get_all_active_ad_users
  req_cookie,                 \* req_ctrl.cookie, lines 64 and 86
  pages,                      \* line 69
  slack_users_to_be_deleted,  \* line 158
  todo,                       \* keys of slack_users_to_be_deleted the loop of line 180 has not reached
  cur,                        \* the candidate (email) being handled, <<>> when none
  msg_kind,                   \* which caller runs slack_message_owners: "disabled", "manual", "escalation"
  send_todo,                  \* owners the loop of line 125 has not reached
  searches,                   \* history: the cookie of every search_ext call of this cycle that returned
  log,                        \* history: every fetch, revoke request and message send of this cycle
  counter_before,             \* history: error_counter before line 201 or 205 last changed it in this cycle
  revoke_history              \* history of the run: id -> whether a revoke request for it succeeded,
                              \* for every id a revoke request was issued for

vars == <<use_scim_api, max_delete_failsafe, slack, members_have_scim_keys, ldap,
          error_counter, pc, error, guest_users, all_slack_owners, all_slack_users,
          all_ad_users, ad_acc, req_cookie, pages, slack_users_to_be_deleted, todo,
          cur, msg_kind, send_todo, searches, log, counter_before, revoke_history>>

config == <<use_scim_api, max_delete_failsafe>>
env    == <<members_have_scim_keys, ldap>>
locals == <<guest_users, all_slack_owners, all_slack_users, all_ad_users, ad_acc,
            req_cookie, pages, slack_users_to_be_deleted, todo, cur, msg_kind,
            send_todo>>

----
\* Bounds of the model.

\* Most accounts in a workspace.
MaxUsers == 3
\* Most pages the directory answers before it stops answering.
MaxPages == 3
\* Most consecutive failed cycles followed under Spec and SpecDir.
MaxErrors == 4
\* Most consecutive failed cycles followed under SpecLoop.
MaxLoopErrors == 53

----
\* Strings.

\* str.lower() on one character (lines 77, 162).
LowerChar(c) ==
  LET up == <<"A","B","C","D","E","F","G","H","I","J","K","L","M",
              "N","O","P","Q","R","S","T","U","V","W","X","Y","Z">>
      lo == <<"a","b","c","d","e","f","g","h","i","j","k","l","m",
              "n","o","p","q","r","s","t","u","v","w","x","y","z">>
  IN  IF \E i \in 1..26 : up[i] = c
      THEN lo[CHOOSE i \in 1..26 : up[i] = c]
      ELSE c

\* str.lower() (lines 77, 162).
Lower(s) == [i \in 1..Len(s) |-> LowerChar(s[i])]

\* sub in s, Python's substring test (line 167).
Contains(sub, s) ==
  \E i \in 0..(Len(s) - Len(sub)) : SubSeq(s, i + 1, i + Len(sub)) = sub

\* The literal '@slack-bots.com' of line 167.
BotMarker == <<"@","s","l","a","c","k","-","b","o","t","s",".","c","o","m">>

\* The emails of the model's workspaces and directories.
Em_a   == <<"a","@","x",".","c","o","m">>
Em_A   == <<"A","@","X",".","c","o","m">>
Em_b   == <<"b","@","x",".","c","o","m">>
Em_c   == <<"c","@","x",".","c","o","m">>
Em_g   == <<"g","@","y",".","i","o">>
Em_h   == <<"h","@","y",".","i","o">>
Em_bot == <<"R","@","S","l","a","c","k","-","B","o","t","s",".","c","o","m">>
Empty  == <<>>

----
\* Python dicts are functions with a finite domain.

\* d[k] = v (lines 77, 106, 118, 171).
Put(d, k, v) == [x \in (DOMAIN d) \cup {k} |-> IF x = k THEN v ELSE d[x]]

\* The empty dict {}.
EmptyDict == [x \in {} |-> TRUE]

\* bool(d.get(k)) for a dict whose values are strings (line 167).
GetTruthy(d, k) == k \in DOMAIN d /\ d[k] # Empty

----
\* The environment: the Slack workspace.

\* The kinds of account a workspace of the model is made of.
AccountKinds == <<
  [email |-> Em_a,   active |-> TRUE,  is_restricted |-> FALSE, is_ultra_restricted |-> FALSE,
   is_owner |-> TRUE,  profile_email |-> Em_a],
  [email |-> Em_A,   active |-> TRUE,  is_restricted |-> FALSE, is_ultra_restricted |-> FALSE,
   is_owner |-> FALSE, profile_email |-> Em_A],
  [email |-> Em_b,   active |-> TRUE,  is_restricted |-> FALSE, is_ultra_restricted |-> FALSE,
   is_owner |-> FALSE, profile_email |-> Em_b],
  [email |-> Em_g,   active |-> TRUE,  is_restricted |-> TRUE,  is_ultra_restricted |-> FALSE,
   is_owner |-> FALSE, profile_email |-> Em_g],
  [email |-> Em_h,   active |-> TRUE,  is_restricted |-> FALSE, is_ultra_restricted |-> TRUE,
   is_owner |-> FALSE, profile_email |-> Empty],
  [email |-> Em_bot, active |-> TRUE,  is_restricted |-> FALSE, is_ultra_restricted |-> FALSE,
   is_owner |-> FALSE, profile_email |-> Em_bot],
  [email |-> Em_c,   active |-> FALSE, is_restricted |-> FALSE, is_ultra_restricted |-> FALSE,
   is_owner |-> FALSE, profile_email |-> Em_c] >>

\* The account of kind k with id i.
Account(i, k) ==
  [id |-> i, email |-> AccountKinds[k].email, active |-> AccountKinds[k].active,
   is_restricted |-> AccountKinds[k].is_restricted,
   is_ultra_restricted |-> AccountKinds[k].is_ultra_restricted,
   is_owner |-> AccountKinds[k].is_owner, profile_email |-> AccountKinds[k].profile_email]

\* The workspace whose i-th account has id i and kind ks[i].
Workspace(ks) == [i \in 1..Len(ks) |-> Account(i, ks[i])]

\* Workspaces of at most n accounts, the kinds in non-decreasing order.
Workspaces(n) ==
  { Workspace(ks) : ks \in { f \in UNION { [1..m -> 1..Len(AccountKinds)] : m \in 0..n } :
                               \A i \in DOMAIN f : i = 1 \/ f[i - 1] <= f[i] } }

\* What users.list answers (lines 54, 101, 114): one member per account.  Slack's
\* members carry neither 'emails' nor 'active'; extended is TRUE for a server
\* whose members carry them as well.
UsersListMembers(w, extended) ==
  [i \in 1..Len(w) |->
     IF extended
     THEN [id |-> w[i].id, is_restricted |-> w[i].is_restricted,
           is_ultra_restricted |-> w[i].is_ultra_restricted, is_owner |-> w[i].is_owner,
           profile |-> [email |-> w[i].profile_email],
           active |-> w[i].active, emails |-> <<[value |-> w[i].email]>>]
     ELSE [id |-> w[i].id, is_restricted |-> w[i].is_restricted,
           is_ultra_restricted |-> w[i].is_ultra_restricted, is_owner |-> w[i].is_owner,
           profile |-> [email |-> w[i].profile_email]]]

\* What /scim/v1/Users answers (line 45): one resource per account.
ScimResources(w) ==
  [i \in 1..Len(w) |->
     [id |-> w[i].id, active |-> w[i].active, emails |-> <<[value |-> w[i].email]>>]]

\* The workspace after DELETE /scim/v1/Users/<id> succeeded: the account is deactivated.
Deactivated(w, id) ==
  [i \in 1..Len(w) |-> IF w[i].id = id THEN [w[i] EXCEPT !.active = FALSE] ELSE w[i]]

----
\* The environment: the directory.

\* One page of a paged search: the entries' attributes, and the cookies of the
\* SimplePagedResults controls among the response's server controls (none, or one).
Page(entries, ctrl) == [entries |-> entries, ctrl |-> ctrl]

\* The entry lists a page of the model carries.  An entry is its attribute dict
\* (entry[1] of line 75): attribute name -> list of values.
PageEntries == <<
  << [mail |-> <<Em_A>>], [uid |-> <<Em_c>>] >>,
  << [mail |-> <<Em_a>>], [mail |-> <<Em_b, Em_c>>], [mail |-> <<Empty>>] >> >>

\* The cookies a server control carries: "" ends the search.
Cookies == {"", "c1", "c2"}

\* What a response's server controls hold: no paging control, or one with a cookie.
Ctrls == {<<>>} \cup { <<c>> : c \in Cookies }

\* Whether a page asks the client to go on.
MoreToCome(p) == p.ctrl # <<>> /\ p.ctrl[1] # ""

\* Answers of at most n pages; every page but the last asks the client to go on.
Directories(n) ==
  { d \in UNION { [1..m -> { Page(PageEntries[e], c) : e \in DOMAIN PageEntries, c \in Ctrls }]
                  : m \in 1..n } :
      \A i \in DOMAIN d : i < Len(d) => MoreToCome(d[i]) }

\* The directories of the workspace-centred specification: an empty one, and one
\* of two pages that holds A@X.com.
SimpleDirectories ==
  { << Page(<<>>, <<"">>) >>,
    << Page(PageEntries[1], <<"c1">>), Page(<<>>, <<"">>) >> }

----
\* The program's functions.

\* get_guest_users, lines 102-107: id -> profile email of every restricted member.
RECURSIVE GuestUsersFrom(_, _, _)
GuestUsersFrom(users, i, acc) ==
  IF i > Len(users) THEN acc
  ELSE GuestUsersFrom(users, i + 1,
         IF users[i].is_ultra_restricted \/ users[i].is_restricted
         THEN Put(acc, users[i].id, users[i].profile.email)
         ELSE acc)

GuestUsers(users) == GuestUsersFrom(users, 1, EmptyDict)

\* get_owner_users, lines 115-119: id -> profile email of every owner.
RECURSIVE OwnerUsersFrom(_, _, _)
OwnerUsersFrom(users, i, acc) ==
  IF i > Len(users) THEN acc
  ELSE OwnerUsersFrom(users, i + 1,
         IF users[i].is_owner
         THEN Put(acc, users[i].id, users[i].profile.email)
         ELSE acc)

OwnerUsers(users) == OwnerUsersFrom(users, 1, EmptyDict)

\* Line 77: the key an entry's email is stored under.
AdKey(email) == Lower(email)

\* Lines 74-77: the emails one page adds to all_ad_users (a dict email -> True,
\* kept as the set of its keys).
RECURSIVE AdEmailsFrom(_, _, _)
AdEmailsFrom(rdata, i, acc) ==
  IF i > Len(rdata) THEN acc
  ELSE AdEmailsFrom(rdata, i + 1,
         IF "mail" \in DOMAIN rdata[i] /\ rdata[i].mail[1] # Empty
         THEN acc \cup {AdKey(rdata[i].mail[1])}
         ELSE acc)

\* Lines 74-77 with all_ad_users emptied on every page.
AdEmailsOfThisPageOnly(rdata, acc) == AdEmailsFrom(rdata, 1, {})

AdEmails(rdata, acc) == AdEmailsFrom(rdata, 1, acc)

\* Lines 83-92 with line 91 a logged warning: the break of line 92 is reached.
PagingOutcomeWarnsOnly(ctrl) ==
  IF ctrl # <<>> /\ ctrl[1] # "" THEN "more" ELSE "done"

\* Lines 83-91: what the loop does after a page whose paging controls carry the
\* cookies ctrl: search again ("more"), leave the loop ("done"), or raise.
PagingOutcome(ctrl) ==
  IF ctrl # <<>>
  THEN IF ctrl[1] # "" THEN "more" ELSE "done"
  ELSE "raise"

\* Lines 162, 164: the subscripts slack_user['emails'] and slack_user['active']
\* raise KeyError on a user that lacks the key.
RaisesKeyError(users) ==
  \E i \in 1..Len(users) : "emails" \notin DOMAIN users[i] \/ "active" \notin DOMAIN users[i]

\* Line 162 without .lower().
SlackUserEmailAsIs(slack_user) == slack_user.emails[1].value

\* Line 162.
SlackUserEmail(slack_user) == Lower(slack_user.emails[1].value)

\* Line 167: the user is a guest or a bot.
IsGuestOrBot(guests, user, email) ==
  GetTruthy(guests, user.id) \/ Contains(BotMarker, email)

\* Line 170: the email is not a key of all_ad_users.
NotInAd(ad, email) == email \notin ad

\* Lines 158-171 without the check of line 164: deactivated users are collected too.
RECURSIVE CollectFromIgnoringActive(_, _, _, _, _)
CollectFromIgnoringActive(users, guests, ad, i, acc) ==
  IF i > Len(users) THEN acc
  ELSE LET slack_user_email == SlackUserEmail(users[i])
       IN  CollectFromIgnoringActive(users, guests, ad, i + 1,
             IF IsGuestOrBot(guests, users[i], slack_user_email) THEN acc
             ELSE IF NotInAd(ad, slack_user_email)
                  THEN Put(acc, slack_user_email,
                           [slack_id |-> users[i].id,
                            reason |-> "they do not exist in corp LDAP."])
                  ELSE acc)

\* Lines 158-171: slack_users_to_be_deleted, a dict email -> {slack_id, reason}.
RECURSIVE CollectFrom(_, _, _, _, _)
CollectFrom(users, guests, ad, i, acc) ==
  IF i > Len(users) THEN acc
  ELSE LET slack_user_email == SlackUserEmail(users[i])
       IN  CollectFrom(users, guests, ad, i + 1,
             IF ~users[i].active THEN acc
             ELSE IF IsGuestOrBot(guests, users[i], slack_user_email) THEN acc
             ELSE IF NotInAd(ad, slack_user_email)
                  THEN Put(acc, slack_user_email,
                           [slack_id |-> users[i].id,
                            reason |-> "they do not exist in corp LDAP."])
                  ELSE acc)

Collect(users, guests, ad) == CollectFrom(users, guests, ad, 1, EmptyDict)

\* Line 176 with >= for >.
FailsafeExceededAtEqual(n_deleted, n_all, limit) == n_deleted * limit[2] >= limit[1] * n_all

\* Lines 173-176: float(n_deleted) / n_all > max_delete_failsafe, the threshold
\* being the fraction limit[1] / limit[2]; n_all > 0.
FailsafeExceeded(n_deleted, n_all, limit) == n_deleted * limit[2] > limit[1] * n_all

\* Line 173 guarded so that an empty list gives the ratio 0.
DivisionNeverRaises(n_all) == FALSE

\* Line 173: the division by len(all_slack_users) raises ZeroDivisionError.
DivisionRaises(n_all) == n_all = 0

\* Line 206 with == 4 for % 48 == 4.
ShouldEscalateOnce(counter) == counter = 4

\* Line 206.
ShouldEscalate(counter) == counter % 48 = 4

\* One entry of the history of requests.
Event(op, id, to, ok) == [op |-> op, id |-> id, to |-> to, ok |-> ok]

----
\* The state after line 197, for the given environments and configurations.

\* The values of SLACK_MAX_DELETE_FAILSAFE of the model: 0.5 and 1.0.
Thresholds == { <<1, 2>>, <<1, 1>> }

InitWith(workspaces, directories, thresholds) ==
  /\ use_scim_api \in BOOLEAN
  /\ max_delete_failsafe \in thresholds
  /\ slack \in workspaces
  /\ members_have_scim_keys \in (IF use_scim_api THEN {FALSE} ELSE BOOLEAN)
  /\ ldap \in directories
  /\ error_counter = 0
  /\ pc = "loop"
  /\ error = "none"
  /\ guest_users = EmptyDict
  /\ all_slack_owners = EmptyDict
  /\ all_slack_users = <<>>
  /\ all_ad_users = <<>>
  /\ ad_acc = {}
  /\ req_cookie = ""
  /\ pages = 0
  /\ slack_users_to_be_deleted = EmptyDict
  /\ todo = {}
  /\ cur = <<>>
  /\ msg_kind = "none"
  /\ send_todo = {}
  /\ searches = <<>>
  /\ log = <<>>
  /\ counter_before = 0
  /\ revoke_history = EmptyDict

\* An exception leaves sync_slack_ldap and is caught at line 202.
Raise(kind) == pc' = "except" /\ error' = kind

----
\* The steps of the program.

\* Lines 198-200: the loop enters sync_slack_ldap, while fewer than cap cycles failed in a row.
StartCycle(cap) ==
  /\ pc = "loop"
  /\ error_counter < cap
  /\ pc' = "guests"
  /\ UNCHANGED <<config, env, counter_before, revoke_history,
                 slack, error_counter, error, locals, searches, log>>

\* Line 151, get_guest_users (lines 97-107): users.list answers, or raise_for_status raises.
GetGuestUsers ==
  /\ pc = "guests"
  /\ \/ /\ guest_users' = GuestUsers(UsersListMembers(slack, members_have_scim_keys))
        /\ pc' = "owners"
        /\ log' = Append(log, Event("guests", 0, 0, TRUE))
        /\ UNCHANGED error
     \/ /\ Raise("HTTPError")
        /\ log' = Append(log, Event("guests", 0, 0, FALSE))
        /\ UNCHANGED guest_users
  /\ UNCHANGED <<config, env, counter_before, revoke_history,
                 slack, error_counter, all_slack_owners, all_slack_users,
                 all_ad_users, ad_acc, req_cookie, pages, slack_users_to_be_deleted, todo,
                 cur, msg_kind, send_todo, searches>>

\* Line 152, get_owner_users (lines 110-119).
GetOwnerUsers ==
  /\ pc = "owners"
  /\ \/ /\ all_slack_owners' = OwnerUsers(UsersListMembers(slack, members_have_scim_keys))
        /\ pc' = "users"
        /\ log' = Append(log, Event("owners", 0, 0, TRUE))
        /\ UNCHANGED error
     \/ /\ Raise("HTTPError")
        /\ log' = Append(log, Event("owners", 0, 0, FALSE))
        /\ UNCHANGED all_slack_owners
  /\ UNCHANGED <<config, env, counter_before, revoke_history,
                 slack, error_counter, guest_users, all_slack_users,
                 all_ad_users, ad_acc, req_cookie, pages, slack_users_to_be_deleted, todo,
                 cur, msg_kind, send_todo, searches>>

\* Lines 153-156, get_all_slack_users_scim (lines 40-45) or get_all_slack_users (lines 48-54).
GetAllSlackUsers ==
  /\ pc = "users"
  /\ \/ /\ all_slack_users' = IF use_scim_api
                              THEN ScimResources(slack)
                              ELSE UsersListMembers(slack, members_have_scim_keys)
        /\ pc' = "ad_bind"
        /\ log' = Append(log, Event("users", 0, 0, TRUE))
        /\ UNCHANGED error
     \/ /\ Raise("HTTPError")
        /\ log' = Append(log, Event("users", 0, 0, FALSE))
        /\ UNCHANGED all_slack_users
  /\ UNCHANGED <<config, env, counter_before, revoke_history,
                 slack, error_counter, guest_users, all_slack_owners,
                 all_ad_users, ad_acc, req_cookie, pages, slack_users_to_be_deleted, todo,
                 cur, msg_kind, send_todo, searches>>

\* Lines 58-69 with a failed bind answered by an empty member set.
AdBindSwallowsError ==
  /\ pc = "ad_bind"
  /\ \/ /\ req_cookie' = ""
        /\ searches' = <<"">>
        /\ ad_acc' = {}
        /\ pages' = 0
        /\ pc' = "ad_result"
        /\ UNCHANGED <<error, log, all_ad_users>>
     \/ /\ all_ad_users' = <<{}>>
        /\ pc' = "classify"
        /\ log' = Append(log, Event("directory", 0, 0, FALSE))
        /\ UNCHANGED <<error, req_cookie, searches, ad_acc, pages>>
  /\ UNCHANGED <<config, env, counter_before, revoke_history,
                 slack, error_counter, guest_users, all_slack_owners,
                 all_slack_users, slack_users_to_be_deleted, todo, cur,
                 msg_kind, send_todo>>

\* Lines 58-69: bind, and the first search_ext, with the empty cookie.
AdBind ==
  /\ pc = "ad_bind"
  /\ \/ /\ req_cookie' = ""
        /\ searches' = <<"">>
        /\ ad_acc' = {}
        /\ pages' = 0
        /\ pc' = "ad_result"
        /\ UNCHANGED <<error, log>>
     \/ /\ Raise("LDAPError")
        /\ log' = Append(log, Event("directory", 0, 0, FALSE))
        /\ UNCHANGED <<req_cookie, searches, ad_acc, pages>>
  /\ UNCHANGED <<config, env, counter_before, revoke_history,
                 slack, error_counter, guest_users, all_slack_owners,
                 all_slack_users, all_ad_users, slack_users_to_be_deleted, todo, cur,
                 msg_kind, send_todo>>

\* Lines 71-94, one turn of the loop.  result3 (line 73) answers the next page, or
\* raises; after its last page the directory answers no more.  The page's emails
\* are accumulated (lines 74-77); then, by the page's control, the cookie is copied
\* and search_ext of line 87 is called, which may raise as well, or the loop is left
\* and unbind_s of line 93 is called, which may raise as well, or line 91 raises.
AdResult ==
  /\ pc = "ad_result"
  /\ pages' = pages + 1
  /\ \/ /\ pages < Len(ldap)
        /\ LET page == ldap[pages + 1]
               acc  == AdEmails(page.entries, ad_acc)
               what == PagingOutcome(page.ctrl)
           IN  /\ ad_acc' = acc
               /\ CASE what = "more" ->
                         /\ req_cookie' = page.ctrl[1]
                         /\ \/ /\ searches' = Append(searches, page.ctrl[1])
                               /\ UNCHANGED <<pc, error, log>>
                            \/ /\ Raise("LDAPError")
                               /\ log' = Append(log, Event("directory", 0, 0, FALSE))
                               /\ UNCHANGED searches
                         /\ UNCHANGED all_ad_users
                    [] what = "done" ->
                         /\ \/ /\ all_ad_users' = <<acc>>
                               /\ pc' = "classify"
                               /\ log' = Append(log, Event("directory", 0, 0, TRUE))
                               /\ UNCHANGED error
                            \/ /\ Raise("LDAPError")
                               /\ log' = Append(log, Event("directory", 0, 0, FALSE))
                               /\ UNCHANGED all_ad_users
                         /\ UNCHANGED <<req_cookie, searches>>
                    [] what = "raise" ->
                         /\ Raise("PagingIgnored")
                         /\ log' = Append(log, Event("directory", 0, 0, FALSE))
                         /\ UNCHANGED <<all_ad_users, req_cookie, searches>>
     \/ /\ Raise("LDAPError")
        /\ log' = Append(log, Event("directory", 0, 0, FALSE))
        /\ UNCHANGED <<ad_acc, all_ad_users, req_cookie, searches>>
  /\ UNCHANGED <<config, env, counter_before, revoke_history,
                 slack, error_counter, guest_users, all_slack_owners,
                 all_slack_users, slack_users_to_be_deleted, todo, cur, msg_kind,
                 send_todo>>

\* Lines 158-177: collect the users to delete, then the failsafe.
Reconcile ==
  /\ pc = "classify"
  /\ IF RaisesKeyError(all_slack_users)
     THEN /\ Raise("KeyError")
          /\ UNCHANGED <<slack_users_to_be_deleted, todo>>
     ELSE LET deleted == Collect(all_slack_users, guest_users, all_ad_users[1])
          IN  /\ slack_users_to_be_deleted' = deleted
              /\ IF DivisionRaises(Len(all_slack_users))
                 THEN /\ Raise("ZeroDivisionError")
                      /\ UNCHANGED todo
                 ELSE IF FailsafeExceeded(Cardinality(DOMAIN deleted), Len(all_slack_users),
                                          max_delete_failsafe)
                 THEN /\ Raise("Failsafe")
                      /\ UNCHANGED todo
                 ELSE /\ pc' = "act"
                      /\ todo' = DOMAIN deleted
                      /\ UNCHANGED error
  /\ UNCHANGED <<config, env, counter_before, revoke_history,
                 slack, error_counter, guest_users, all_slack_owners,
                 all_slack_users, all_ad_users, ad_acc, req_cookie, pages, cur, msg_kind,
                 send_todo, searches, log>>

\* Lines 138-145 without the raise_for_status of line 142: the owners are told the
\* account was disabled whatever the DELETE request answered.
DisableSlackUserNotifiesAnyway ==
  /\ pc = "act"
  /\ use_scim_api
  /\ \E email \in todo :
       LET slack_id == slack_users_to_be_deleted[email].slack_id
       IN  /\ \/ /\ log' = Append(log, Event("revoke", slack_id, 0, TRUE))
                 /\ revoke_history' = Put(revoke_history, slack_id, TRUE)
                 /\ slack' = Deactivated(slack, slack_id)
              \/ /\ log' = Append(log, Event("revoke", slack_id, 0, FALSE))
                 /\ revoke_history' = Put(revoke_history, slack_id,
                                          slack_id \in DOMAIN revoke_history
                                            /\ revoke_history[slack_id])
                 /\ UNCHANGED slack
           /\ cur' = <<email>>
           /\ msg_kind' = "disabled"
           /\ send_todo' = DOMAIN all_slack_owners
           /\ pc' = "send"
           /\ UNCHANGED error
  /\ UNCHANGED <<config, env, counter_before, error_counter, guest_users, all_slack_owners,
                 all_slack_users,
                 all_ad_users, ad_acc, req_cookie, pages, slack_users_to_be_deleted, todo,
                 searches>>

\* Lines 180-182 and 138-145: the next candidate's DELETE request; when it
\* succeeded the account is deactivated and slack_message_owners is entered.
DisableSlackUser ==
  /\ pc = "act"
  /\ use_scim_api
  /\ \E email \in todo :
       LET slack_id == slack_users_to_be_deleted[email].slack_id
       IN  \/ /\ log' = Append(log, Event("revoke", slack_id, 0, TRUE))
              /\ revoke_history' = Put(revoke_history, slack_id, TRUE)
              /\ slack' = Deactivated(slack, slack_id)
              /\ cur' = <<email>>
              /\ msg_kind' = "disabled"
              /\ send_todo' = DOMAIN all_slack_owners
              /\ pc' = "send"
              /\ UNCHANGED error
           \/ /\ log' = Append(log, Event("revoke", slack_id, 0, FALSE))
              /\ revoke_history' = Put(revoke_history, slack_id,
                                       slack_id \in DOMAIN revoke_history
                                         /\ revoke_history[slack_id])
              /\ Raise("HTTPError")
              /\ UNCHANGED <<slack, cur, msg_kind, send_todo>>
  /\ UNCHANGED <<config, env, counter_before, error_counter, guest_users, all_slack_owners,
                 all_slack_users,
                 all_ad_users, ad_acc, req_cookie, pages, slack_users_to_be_deleted, todo,
                 searches>>

\* Lines 180, 183-184 and 187-191: slack_message_owners is entered for the next candidate.
NotifyAdminInvalidUser ==
  /\ pc = "act"
  /\ ~use_scim_api
  /\ \E email \in todo :
       /\ cur' = <<email>>
       /\ msg_kind' = "manual"
       /\ send_todo' = DOMAIN all_slack_owners
       /\ pc' = "send"
  /\ UNCHANGED <<config, env, counter_before, revoke_history,
                 slack, error_counter, error, guest_users, all_slack_owners,
                 all_slack_users, all_ad_users, ad_acc, req_cookie, pages,
                 slack_users_to_be_deleted, todo, searches, log>>

\* Lines 125-134, one turn of the loop: chat.postMessage to the next owner answers,
\* or raise_for_status raises.  Raised under line 209 the exception is in no try block.
SlackMessageOwners ==
  /\ pc = "send"
  /\ \E owner \in send_todo :
       LET about == IF cur = <<>> THEN 0 ELSE slack_users_to_be_deleted[cur[1]].slack_id
       IN  \/ /\ log' = Append(log, Event(msg_kind, about, owner, TRUE))
              /\ send_todo' = send_todo \ {owner}
              /\ UNCHANGED <<pc, error>>
           \/ /\ log' = Append(log, Event(msg_kind, about, owner, FALSE))
              /\ IF msg_kind = "escalation"
                 THEN pc' = "crashed" /\ UNCHANGED error
                 ELSE Raise("HTTPError")
              /\ UNCHANGED send_todo
  /\ UNCHANGED <<config, env, counter_before, revoke_history,
                 slack, error_counter, guest_users, all_slack_owners,
                 all_slack_users, all_ad_users, ad_acc, req_cookie, pages,
                 slack_users_to_be_deleted, todo, cur, msg_kind, searches>>

\* Line 135 and the caller's return: the loop of line 180 goes on, or line 210 is reached.
MessageOwnersReturn ==
  /\ pc = "send"
  /\ send_todo = {}
  /\ IF msg_kind = "escalation"
     THEN /\ pc' = "sleep"
          /\ UNCHANGED <<todo, cur>>
     ELSE /\ pc' = "act"
          /\ todo' = todo \ {cur[1]}
          /\ cur' = <<>>
  /\ msg_kind' = "none"
  /\ UNCHANGED <<config, env, counter_before, revoke_history,
                 slack, error_counter, error, guest_users, all_slack_owners,
                 all_slack_users, all_ad_users, ad_acc, req_cookie, pages,
                 slack_users_to_be_deleted, send_todo, searches, log>>

\* Line 201 left out: a cycle that returned keeps error_counter.
SyncReturnKeepsCounter ==
  /\ pc = "act"
  /\ todo = {}
  /\ counter_before' = error_counter
  /\ pc' = "sleep"
  /\ UNCHANGED <<config, env, revoke_history, slack, error_counter, error, locals, searches,
                 log>>

\* Lines 180 (exhausted) and 201: sync_slack_ldap returned.
SyncReturn ==
  /\ pc = "act"
  /\ todo = {}
  /\ error_counter' = 0
  /\ counter_before' = error_counter
  /\ pc' = "sleep"
  /\ UNCHANGED <<config, env, revoke_history, slack, error, locals, searches, log>>

\* Lines 202-207.
HandleException ==
  /\ pc = "except"
  /\ error_counter' = error_counter + 1
  /\ counter_before' = error_counter
  /\ pc' = IF ShouldEscalate(error_counter + 1) THEN "escalate" ELSE "sleep"
  /\ UNCHANGED <<config, env, revoke_history, slack, error, locals, searches, log>>

\* Lines 208-209: get_owner_users answers and slack_message_owners is entered, or
\* it raises, in no try block.
EscalateGetOwners ==
  /\ pc = "escalate"
  /\ \/ /\ all_slack_owners' = OwnerUsers(UsersListMembers(slack, members_have_scim_keys))
        /\ send_todo' = DOMAIN all_slack_owners'
        /\ msg_kind' = "escalation"
        /\ cur' = <<>>
        /\ pc' = "send"
        /\ log' = Append(log, Event("escalation_owners", 0, 0, TRUE))
     \/ /\ pc' = "crashed"
        /\ log' = Append(log, Event("escalation_owners", 0, 0, FALSE))
        /\ UNCHANGED <<all_slack_owners, send_todo, msg_kind, cur>>
  /\ UNCHANGED <<config, env, counter_before, revoke_history,
                 slack, error_counter, error, guest_users, all_slack_users,
                 all_ad_users, ad_acc, req_cookie, pages, slack_users_to_be_deleted, todo,
                 searches>>

\* Lines 210-212, and back to line 198: nothing of the cycle is kept but error_counter.
Sleep ==
  /\ pc = "sleep"
  /\ pc' = "loop"
  /\ error' = "none"
  /\ guest_users' = EmptyDict
  /\ all_slack_owners' = EmptyDict
  /\ all_slack_users' = <<>>
  /\ all_ad_users' = <<>>
  /\ ad_acc' = {}
  /\ req_cookie' = ""
  /\ pages' = 0
  /\ slack_users_to_be_deleted' = EmptyDict
  /\ todo' = {}
  /\ cur' = <<>>
  /\ msg_kind' = "none"
  /\ send_todo' = {}
  /\ searches' = <<>>
  /\ log' = <<>>
  /\ counter_before' = 0
  /\ UNCHANGED <<config, env, revoke_history, slack, error_counter>>

\* Every step but the loop's entry.
Step ==
  \/ GetGuestUsers
  \/ GetOwnerUsers
  \/ GetAllSlackUsers
  \/ AdBind
  \/ AdResult
  \/ Reconcile
  \/ DisableSlackUser
  \/ NotifyAdminInvalidUser
  \/ SlackMessageOwners
  \/ MessageOwnersReturn
  \/ SyncReturn
  \/ HandleException
  \/ EscalateGetOwners
  \/ Sleep

----
\* Specifications.

\* Every workspace of at most MaxUsers accounts against three directories.
Init == InitWith(Workspaces(MaxUsers), SimpleDirectories, Thresholds)
Next == StartCycle(MaxErrors) \/ Step
Spec == Init /\ [][Next]_vars

\* Every directory answer of at most MaxPages pages against one workspace.
InitDir == InitWith({Workspace(<<1, 3>>)}, Directories(MaxPages), {<<1, 2>>})
SpecDir == InitDir /\ [][Next]_vars

\* Long runs of failed cycles against one workspace and one directory.
InitLoop == InitWith({Workspace(<<1, 3>>)},
                     {<< Page(PageEntries[1], <<"c1">>), Page(<<>>, <<"">>) >>}, {<<1, 2>>})
NextLoop == StartCycle(MaxLoopErrors) \/ Step
SpecLoop == InitLoop /\ [][NextLoop]_vars

----
\* What the claims speak of.

\* A revoke request, or a message to an owner about one candidate.
RevokeOrNotice(e) == e.op \in {"revoke", "disabled", "manual"}

\* The cycle has issued no revoke request and no message about a candidate.
NoRevokeOrNotice == \A j \in 1..Len(log) : ~RevokeOrNotice(log[j])

\* A revoke request was issued for the account.
RevokeRequested(id) == \E j \in 1..Len(log) : log[j].op = "revoke" /\ log[j].id = id

\* The account is among the users to be deleted.
IsCandidate(id) ==
  \E k \in DOMAIN slack_users_to_be_deleted : slack_users_to_be_deleted[k].slack_id = id

\* The cycle went through the failsafe check of line 176 with a non-empty user list.
PastFailsafeCheck ==
  /\ all_ad_users # <<>>
  /\ pc # "classify"
  /\ ~RaisesKeyError(all_slack_users)
  /\ Len(all_slack_users) > 0

\* Two strings are equal up to the case of their letters.
SameIgnoringCase(s, t) ==
  Len(s) = Len(t) /\ \A i \in 1..Len(s) : LowerChar(s[i]) = LowerChar(t[i])

\* The emails of the directory's entries: the first value of each entry's mail.
DirectoryMails ==
  UNION { { ldap[p].entries[j].mail[1] :
              j \in { k \in 1..Len(ldap[p].entries) : "mail" \in DOMAIN ldap[p].entries[k] } } :
          p \in 1..Len(ldap) }

----
\* C1: a cycle that reaches the failsafe with a non-empty user list fails with
\* the failsafe error exactly when candidates / users > max_delete_failsafe (an
\* equal ratio passes), and a cycle the failsafe stopped has issued no revoke
\* request and no message about a candidate.
C1_FailsafeIffRatioExceeds ==
  PastFailsafeCheck =>
    /\ (error = "Failsafe") <=>
         (Cardinality(DOMAIN slack_users_to_be_deleted) * max_delete_failsafe[2]
            > max_delete_failsafe[1] * Len(all_slack_users))
    /\ (error = "Failsafe") => NoRevokeOrNotice

\* The failsafe stopped a cycle, and the handler has run.
C1_Witness ==
  /\ PastFailsafeCheck
  /\ error = "Failsafe"
  /\ pc = "sleep"
  /\ Cardinality(DOMAIN slack_users_to_be_deleted) = 2

\* C2: against a workspace without accounts no cycle gets past the failsafe, none
\* issues a revoke request or a message about a candidate, and every cycle ends
\* with an exception caught and the failure counter incremented.
C2_EmptySnapshotFails ==
  Len(slack) = 0 =>
    /\ pc # "act"
    /\ NoRevokeOrNotice
    /\ (pc = "sleep" => error # "none" /\ error_counter >= 1)

\* A cycle read the empty user list, divided by its length, and was counted as failed.
C2_Witness ==
  /\ Len(slack) = 0
  /\ error = "ZeroDivisionError"
  /\ pc = "sleep"
  /\ error_counter = 1

\* C3: an account whose email equals a directory entry's email up to letter case
\* is never among the users to be deleted and no revoke request is issued for it.
C3_CaseInsensitiveMatch ==
  \A i \in 1..Len(slack) :
    (IsCandidate(slack[i].id) \/ RevokeRequested(slack[i].id)) =>
       ~\E m \in DirectoryMails : m # Empty /\ SameIgnoringCase(m, slack[i].email)

\* A cycle succeeded against a workspace holding a@x.com while the directory holds
\* A@X.com, and it did revoke another account.
C3_Witness ==
  /\ pc = "sleep"
  /\ error = "none"
  /\ \E i \in 1..Len(slack) : \E m \in DirectoryMails :
       m # slack[i].email /\ SameIgnoringCase(m, slack[i].email) /\ slack[i].active
  /\ \E j \in 1..Len(log) : log[j].op = "revoke"

\* The platform flags the account as a guest.
IsGuest(account) == account.is_restricted \/ account.is_ultra_restricted

\* The string ends with the suffix.
EndsWith(suffix, s) ==
  Len(s) >= Len(suffix) /\ SubSeq(s, Len(s) - Len(suffix) + 1, Len(s)) = suffix

\* The account's normalized email ends with the bot suffix.
IsBot(account) == EndsWith(BotMarker, [i \in 1..Len(account.email) |-> LowerChar(account.email[i])])

\* The normalized emails of the directory's entries.
DirectorySet ==
  { [i \in 1..Len(m) |-> LowerChar(m[i])] : m \in DirectoryMails \ {Empty} }

\* C4: an account the platform flags as restricted or ultra-restricted, whatever
\* its email, and an account whose email ends with the bot suffix, is never among
\* the users to be deleted and no revoke request is issued for it.
C4_GuestsAndBotsNeverCandidates ==
  \A i \in 1..Len(slack) :
    (IsGuest(slack[i]) \/ IsBot(slack[i])) =>
       /\ ~IsCandidate(slack[i].id)
       /\ ~RevokeRequested(slack[i].id)

\* The accounts of the snapshot that are active, no guests, no bots, and whose
\* normalized email is not in the directory.
AbsentFromDirectory ==
  { slack[i].id : i \in { k \in 1..Len(all_slack_users) :
       /\ all_slack_users[k].active
       /\ ~IsGuest(slack[k])
       /\ ~IsBot(slack[k])
       /\ [n \in 1..Len(slack[k].email) |-> LowerChar(slack[k].email[n])] \notin DirectorySet } }

\* C5: when a cycle with the SCIM API ends without an exception, the accounts a
\* revoke request was issued for are exactly the active accounts that are no
\* guests, no bots, and absent from the directory, each of them once.
C5_RevokesExactlyTheAbsent ==
  (use_scim_api /\ pc = "sleep" /\ error = "none") =>
    /\ { log[j].id : j \in { k \in 1..Len(log) : log[k].op = "revoke" } } = AbsentFromDirectory
    /\ \A j, k \in 1..Len(log) :
         (log[j].op = "revoke" /\ log[k].op = "revoke" /\ log[j].id = log[k].id) => j = k

\* Every page of the directory's answer carries the paging control, with an empty
\* cookie on the last page and on no other.
WellPaged ==
  \A i \in 1..Len(ldap) :
    ldap[i].ctrl # <<>> /\ (ldap[i].ctrl[1] = "" <=> i = Len(ldap))

\* The cookie each request carries when each follows the page before it.
ExpectedSearches == [i \in 1..Len(ldap) |-> IF i = 1 THEN "" ELSE ldap[i - 1].ctrl[1]]

\* C6: against a directory whose pages all carry the control, the last one alone
\* with an empty cookie, the loop of line 71 never asks for more pages than there
\* are, never raises for a missing control, sends with each request the cookie of
\* the page before, and returns after the last page the normalized emails of the
\* entries of all pages.
C6_PagedEnumerationReturnsUnion ==
  WellPaged =>
    /\ error # "PagingIgnored"
    /\ pc = "ad_result" => pages < Len(ldap)
    /\ Len(searches) <= Len(ldap)
    /\ \A i \in 1..Len(searches) : searches[i] = ExpectedSearches[i]
    /\ all_ad_users # <<>> =>
         /\ pages = Len(ldap)
         /\ searches = ExpectedSearches
         /\ all_ad_users[1] = DirectorySet

\* Three pages were read and their entries, two distinct emails, were returned.
C6_Witness ==
  /\ WellPaged
  /\ Len(ldap) = 3
  /\ pc = "classify"
  /\ all_ad_users # <<>>
  /\ Cardinality(all_ad_users[1]) = 2

\* The pages result3 has answered in this cycle, at least: an LDAP call that
\* raised may have been result3 itself (line 73), before the page counted last was
\* answered, or a call after that page was read (line 87 or 93); a page read
\* without the control raises at line 91 and never reaches those calls.
PagesAnswered == IF error = "LDAPError" /\ pages > 0 THEN pages - 1 ELSE pages

\* C7: once a page without the paging control was answered, the enumeration has
\* raised, sync_slack_ldap was handed no member set and collected nothing, no
\* revoke request and no message about a candidate is issued, and the cycle is
\* counted as failed.
C7_MissingControlFailsCycle ==
  (\E i \in 1..PagesAnswered : i <= Len(ldap) /\ ldap[i].ctrl = <<>>) =>
    /\ error = "PagingIgnored"
    /\ all_ad_users = <<>>
    /\ slack_users_to_be_deleted = EmptyDict
    /\ NoRevokeOrNotice
    /\ pc \in {"except", "sleep", "escalate", "send", "crashed"}
    /\ pc = "send" => msg_kind = "escalation"
    /\ pc # "except" => error_counter >= 1

\* The second page came without the control after the first page's entries had
\* been accumulated, and the cycle was counted as failed.
C7_Witness ==
  /\ Len(ldap) = 2
  /\ ldap[2].ctrl = <<>>
  /\ pages = 2
  /\ ad_acc # {}
  /\ error = "PagingIgnored"
  /\ pc = "sleep"
  /\ error_counter = 1

\* The fetches sync_slack_ldap makes before it collects.
Fetches == {"guests", "owners", "users", "directory"}

\* C8: every revoke request and every message about a candidate comes after the
\* guest list, the owner list, the user list and the whole directory were
\* obtained, and a cycle in which one of these fetches failed issues none.
C8_NothingBeforeAllFetches ==
  \A j \in 1..Len(log) :
    RevokeOrNotice(log[j]) =>
      /\ \A f \in Fetches : \E k \in 1..(j - 1) : log[k].op = f /\ log[k].ok
      /\ \A k \in 1..Len(log) : log[k].op \in Fetches => log[k].ok
      /\ all_ad_users # <<>>
      /\ pages = Len(ldap)

\* A candidate was revoked after a directory of two pages had been read.
C8_Witness ==
  /\ pc = "send"
  /\ msg_kind = "disabled"
  /\ Len(ldap) = 2
  /\ \E j \in 1..Len(log) : log[j].op = "revoke" /\ log[j].ok

\* C9: the handler of line 202 adds one to error_counter, and line 208 is reached
\* exactly from the handler when the incremented counter is 4 modulo 48; a cycle
\* that returned never reaches it.
C9_EscalationCadence ==
  [][ /\ (pc = "except") => (error_counter' = error_counter + 1)
      /\ (pc' = "escalate") <=> (pc = "except" /\ error_counter' % 48 = 4)
      /\ (\E j \in 1..Len(log') : log'[j].op \in {"escalation", "escalation_owners"})
           => (error # "none" /\ error_counter' % 48 = 4) ]_vars

\* The second escalation, at the 52nd consecutive failure.
C9_Witness ==
  /\ pc = "send"
  /\ msg_kind = "escalation"
  /\ error_counter = 52

\* C10: the loop is never left: whatever call fails, the process goes on.
C10_LoopNeverExits == pc # "crashed"

----
\* Failures while the candidates are acted on.

\* The cycle is over: it returned, or it was left through the handler of line 202.
CycleOver ==
  \/ pc \in {"except", "escalate", "sleep", "crashed"}
  \/ pc = "send" /\ msg_kind = "escalation"

\* The cycle tried to act on the account: a revoke request for it in capability-rich
\* mode, a message about it to an owner (if there is an owner) otherwise.
Attempted(id) ==
  IF use_scim_api
  THEN RevokeRequested(id)
  ELSE \/ all_slack_owners = EmptyDict
       \/ \E j \in 1..Len(log) : log[j].op = "manual" /\ log[j].id = id

\* C11: a cycle that passed the failsafe has, when it is over, tried to act on every
\* candidate, whatever revoke request or message was rejected on the way: a
\* rejected call skips one candidate and the remaining ones are still attempted.
C11_FailureSkipsOnlyThatCandidate ==
  (CycleOver /\ PastFailsafeCheck /\ error # "Failsafe") =>
    \A k \in DOMAIN slack_users_to_be_deleted :
      Attempted(slack_users_to_be_deleted[k].slack_id)

\* The messages slack_message_owners sends.
Notices == {"disabled", "manual", "escalation"}

\* C12: once slack_message_owners is left, every message it tried to send to one
\* owner was tried for every owner: a rejected send does not keep the following
\* recipients from being tried.
C12_FanOutReachesEveryOwner ==
  (pc # "send") =>
    \A j \in 1..Len(log) :
      log[j].op \in Notices =>
        \A owner \in DOMAIN all_slack_owners :
          \E k \in 1..Len(log) :
            log[k].op = log[j].op /\ log[k].id = log[j].id /\ log[k].to = owner

\* C13: in capability-limited mode no revoke request is issued and no account is
\* changed, no message says an account was disabled, and a cycle that passed the
\* failsafe has, when it is over, tried to tell every owner about every candidate
\* that manual action is required.
C13_LimitedModeOnlyNotifies ==
  (~use_scim_api) =>
    /\ \A j \in 1..Len(log) : log[j].op \notin {"revoke", "disabled"}
    /\ revoke_history = EmptyDict
    /\ (CycleOver /\ PastFailsafeCheck /\ error # "Failsafe") =>
         \A k \in DOMAIN slack_users_to_be_deleted :
           \A owner \in DOMAIN all_slack_owners :
             \E j \in 1..Len(log) :
               /\ log[j].op = "manual"
               /\ log[j].id = slack_users_to_be_deleted[k].slack_id
               /\ log[j].to = owner

\* C14: the enumeration does not go on to wait for a further page once two
\* consecutive pages were answered with the same non-empty cookie: it has stopped
\* and the cycle has failed.
C14_RepeatedCookieStopsEnumeration ==
  (/\ pages >= 2
   /\ PagesAnswered = pages
   /\ pages <= Len(ldap)
   /\ ldap[pages].ctrl # <<>>
   /\ ldap[pages].ctrl = ldap[pages - 1].ctrl
   /\ ldap[pages].ctrl[1] # "") =>
    /\ pc # "ad_result"
    /\ error # "none"
    /\ all_ad_users = <<>>

----
\* The error counter.

\* C15: line 201 sets error_counter to 0 whatever it was, the handler of line 202
\* adds exactly 1, and no other step changes it: at the end of a cycle it is the
\* number of cycles that failed since the last one that returned, and line 208 is
\* reached when that number is 4 modulo 48.
C15_CounterCountsFailuresSinceSuccess ==
  [][ /\ (pc = "act" /\ pc' = "sleep") => (error_counter' = 0)
      /\ (pc = "except") => (error_counter' = error_counter + 1 /\ pc' # "except")
      /\ (pc # "except" /\ ~(pc = "act" /\ pc' = "sleep")) => (error_counter' = error_counter)
      /\ (pc' = "except") => (pc \in {"guests", "owners", "users", "ad_bind", "ad_result",
                                      "classify", "act", "send"})
      /\ (pc' = "escalate") => (error_counter' % 48 = 4) ]_vars

\* A cycle returned after three failed ones and the counter is back at 0.
C15_Witness ==
  /\ pc = "sleep"
  /\ error = "none"
  /\ counter_before = 3
  /\ error_counter = 0

----
\* The legacy listing.

\* C16: in capability-limited mode no cycle fails over a key the members of the
\* legacy listing do not carry: the listed accounts are reconciled.
C16_LegacyListingIsReconciled == (~use_scim_api) => (error # "KeyError")

----
\* Revoke requests and the messages about them.

\* C17: a message that an account was disabled is sent only after a revoke request
\* for that account succeeded in the same cycle, and in no cycle in which a revoke
\* request for that account was rejected.
C17_NoticeOnlyAfterSuccessfulRevoke ==
  \A j \in 1..Len(log) :
    log[j].op = "disabled" =>
      /\ \E k \in 1..(j - 1) : log[k].op = "revoke" /\ log[k].id = log[j].id /\ log[k].ok
      /\ \A k \in 1..Len(log) : (log[k].op = "revoke" /\ log[k].id = log[j].id) => log[k].ok

\* An owner was told about an account whose revoke request had succeeded.
C17_Witness ==
  /\ use_scim_api
  /\ \E j \in 1..Len(log) : log[j].op = "disabled" /\ log[j].ok
  /\ \E j \in 1..Len(log) : log[j].op = "revoke" /\ log[j].ok

\* The step issues a revoke request for the account.
RevokeRequestedNow(id) ==
  /\ Len(log') = Len(log) + 1
  /\ log'[Len(log')].op = "revoke"
  /\ log'[Len(log')].id = id

\* The step sends the owner the message that the account was disabled.
DisabledNoticeNow(id, owner) ==
  /\ Len(log') = Len(log) + 1
  /\ log'[Len(log')].op = "disabled"
  /\ log'[Len(log')].id = id
  /\ log'[Len(log')].to = owner

\* A message about the account is sent to an owner only in the cycle in which its
\* revoke request succeeded, and once to each owner.
NoticeOnceAfterRevoke(id, owner) ==
  DisabledNoticeNow(id, owner) =>
    /\ \E k \in 1..Len(log) : log[k].op = "revoke" /\ log[k].id = id /\ log[k].ok
    /\ ~\E k \in 1..Len(log) : log[k].op = "disabled" /\ log[k].id = id /\ log[k].to = owner

\* Accounts the snapshot reports inactive are no candidates, and every candidate is
\* an account of the snapshot: the numerator of line 173 counts active accounts only.
InactiveNeverCandidates ==
  /\ \A i \in 1..Len(all_slack_users) :
       (~RaisesKeyError(all_slack_users) /\ ~all_slack_users[i].active)
         => ~IsCandidate(all_slack_users[i].id)
  /\ \A k \in DOMAIN slack_users_to_be_deleted :
       \E i \in 1..Len(all_slack_users) :
         /\ all_slack_users[i].id = slack_users_to_be_deleted[k].slack_id
         /\ all_slack_users[i].active

\* The platform reports an account inactive once its revoke request succeeded.
RevokedStaysInactive ==
  \A id \in DOMAIN revoke_history : revoke_history[id] => ~slack[id].active

\* C18: over the whole run an account gets at most one revoke request,
\* the owners are told about it at most once, and inactive accounts are never
\* candidates.
C18_AtMostOneRevokeRequest ==
  [][ use_scim_api =>
        /\ \A id \in 1..Len(slack) :
             /\ RevokeRequestedNow(id) => (id \notin DOMAIN revoke_history)
             /\ \A owner \in 1..Len(slack) : NoticeOnceAfterRevoke(id, owner)
        /\ RevokedStaysInactive
        /\ InactiveNeverCandidates ]_vars

\* C18, counting successful requests: over the whole run no revoke request is issued for an account
\* after a revoke request for it succeeded (a rejected one is issued again in the
\* next cycle), so at most one succeeds; the owners are told about the account in
\* the cycle of that success only, each at most once; and inactive accounts are
\* never candidates.
C18_NoRevokeAfterSuccessfulRevoke ==
  [][ use_scim_api =>
        /\ \A id \in 1..Len(slack) :
             /\ RevokeRequestedNow(id) =>
                  (id \in DOMAIN revoke_history => ~revoke_history[id])
             /\ \A owner \in 1..Len(slack) : NoticeOnceAfterRevoke(id, owner)
        /\ RevokedStaysInactive
        /\ InactiveNeverCandidates ]_vars

\* A later cycle took its snapshot after an account's revoke request had succeeded,
\* and found nothing to revoke.
C18_Witness ==
  /\ use_scim_api
  /\ pc = "act"
  /\ \E id \in DOMAIN revoke_history : revoke_history[id]
  /\ ~\E j \in 1..Len(log) : log[j].op = "revoke"
  /\ slack_users_to_be_deleted = EmptyDict

====
